---- MODULE Spec2Model ----
(***************************************************************************)
(* Model of kelvin's content-addressed Store (src/src/store.rs): the       *)
(* generation chain of backends, Store::put, Store::persist,               *)
(* Store::restore / Store::get_hash, and the Sink / Source protocol that   *)
(* drives them, run by concurrent threads that share one Store.            *)
(***************************************************************************)
EXTENDS Integers, Sequences, FiniteSets, Bags, TLC

\* ------------------------------------------------------------- bounds
\* Threads sharing one Store (Store is Clone over an Arc).
NumThreads == 2
\* Threads that call restore.
NumRestorers == 1
\* Longest generation chain the model starts from.
MaxGens == 2
\* Store objects constructed over the durable location.
MaxOpens == 2
\* Capacity of the generation chain.
GENERATIONS == 8

Threads == 1..NumThreads
\* Every thread persists; the first NumRestorers of them also restore (a
\* restore writes nothing that another call reads).
Restorers == 1..NumRestorers
\* The last thread also does the housekeeping of the Store: flush and size.
Keepers == {NumThreads}

\* ------------------------------------------------------ Content values
\* A Content value: one primitive field and the nested Content values it owns.
Leaf(x) == [x |-> x, kids |-> <<>>]
Node(x, kids) == [x |-> x, kids |-> kids]

\* B = {y: 2}
ValB == Leaf(2)
\* A = {x: 1, child: B}
ValA == Node(1, <<ValB>>)

\* the values the callers persist
Values == {ValB, ValA}
\* a value this Store is never given: its Snapshot comes from another Store
ValForeign == Leaf(1)
NoValue == Leaf(0)

\* ------------------------------------------------------------- digests
\* Cantor pairing: a bijection Nat \X Nat -> Nat.
Pair(a, b) == ((a + b) * (a + b + 1)) \div 2 + b

\* The hash capability: deterministic and collision-free on byte strings.
RECURSIVE Hash(_)
Hash(bytes) ==
    IF bytes = <<>> THEN 0
    ELSE Pair(Hash(SubSeq(bytes, 1, Len(bytes) - 1)), bytes[Len(bytes)]) + 1

\* ------------------------------------------------- serialized layout
\* Sink: the primitive field, the number of children, then one digest per
\* child in the order the children appear.
SinkHeader(v) == <<v.x, Len(v.kids)>>

\* Source: decodes the fixed layout; bytes too short for it are a decode error.
WellFormed(bytes) ==
    /\ Len(bytes) >= 2
    /\ bytes[2] >= 0
    /\ Len(bytes) >= 2 + bytes[2]
DecodeX(bytes) == bytes[1]
DecodeDigests(bytes) == SubSeq(bytes, 3, 2 + bytes[2])

\* The bytes and the digest persist produces for a value (post-order).
RECURSIVE BytesOf(_)
BytesOf(v) ==
    SinkHeader(v) \o [i \in 1..Len(v.kids) |-> Hash(BytesOf(v.kids[i]))]
DigestOf(v) == Hash(BytesOf(v))

\* Every sub-value of v, v included.
RECURSIVE SubValues(_)
SubValues(v) ==
    {v} \cup UNION {SubValues(v.kids[i]) : i \in 1..Len(v.kids)}

\* ------------------------------------------------------------ backends
\* A backend holds stored blobs; a bag, so that a second copy would show.
Blob(d, bytes) == [digest |-> d, bytes |-> bytes]
HasDigest(b, d) == \E e \in BagToSet(b) : e.digest = d
CopiesOf(b, d) ==
    LET es == {e \in BagToSet(b) : e.digest = d}
        RECURSIVE Sum(_)
        Sum(S) == IF S = {} THEN 0
                  ELSE LET e == CHOOSE e \in S : TRUE
                       IN CopiesIn(e, b) + Sum(S \ {e})
    IN Sum(es)

\* Results of io::Result: err = "Ok" or an io::ErrorKind.
GetOk(bytes) == [err |-> "Ok", bytes |-> bytes]
GetErr(kind) == [err |-> kind, bytes |-> <<>>]

\* Backend::get: the bytes stored under the digest, NotFound if absent, or
\* an I/O failure of the storage medium.
BackendGet(b, d) ==
    (IF HasDigest(b, d)
     THEN {GetOk(e.bytes) : e \in {e \in BagToSet(b) : e.digest = d}}
     ELSE {GetErr("NotFound")})
    \cup {GetErr("Io")}

\* Backend::put: writes unless the digest is present, then a no-op reporting
\* AlreadyThere; or an I/O failure that writes nothing.
PutDone(res, b) == [res |-> res, backend |-> b]
BackendPut(b, d, bytes) ==
    {IF HasDigest(b, d)
     THEN PutDone("AlreadyThere", b)
     ELSE PutDone("Ok", b (+) SetToBag({Blob(d, bytes)}))}
    \cup {PutDone("Io", b)}

\* Older generations a chain may start with.
\* A alone: its child B is absent from this generation.
OldParentOnly == SetToBag({Blob(DigestOf(ValA), BytesOf(ValA))})
\* A, and other bytes under B's digest: B's blob cut short.
OldCorruptChild ==
    SetToBag({Blob(DigestOf(ValA), BytesOf(ValA)), Blob(DigestOf(ValB), <<2>>)})
\* a colliding copy: another value's bytes under B's digest
OldCollide == SetToBag({Blob(DigestOf(ValB), BytesOf(ValForeign))})
OldGens == {OldParentOnly, OldCorruptChild, OldCollide}


\* --------------------------------------------------------------- state
VARIABLES
    gens,       \* StoreInner.generations: index -> backend (0 is the newest)
    pc,         \* per thread: "idle", "put" (in persist), "get" (in restore),
                \* or "ret" (its call has returned and the caller holds the result)
    call,       \* per thread: the call it runs or last ran
    sinks,      \* per thread: the stack of Sinks of its persist
    sources,    \* per thread: the stack of get_hash frames of its restore
    ret,        \* per thread: what its last call returned
    faulted,    \* per thread: a backend reported an I/O failure in its call
    lastHit,    \* per thread: the last lookup of its call that returned bytes,
                \* and the first generation that held the digest at that time
    lastPut,    \* per thread: the last Store::put of its call and its result
    produced,   \* every digest a Store::put has accepted (stored or already there)
    snapshots,  \* every Snapshot a persist has returned, with its value
    scan,       \* per thread: where its flush or size loop is in the chain
    cache,      \* StoreInner.cache: digest -> bytes it holds
    handle,     \* per thread: the Store object it uses (NoStore: none)
    opened,     \* how many Store objects have been constructed
    dirExists   \* the storage directory of the durable location exists

vars == <<gens, pc, call, sinks, sources, ret, faulted, lastHit, lastPut,
          produced, snapshots, scan, cache, handle, opened, dirExists>>

NumGen == Cardinality(DOMAIN gens)

RetNone == [tag |-> "None", hash |-> 0, val |-> NoValue, err |-> "Ok"]
RetSnapshot(d) == [tag |-> "Snapshot", hash |-> d, val |-> NoValue, err |-> "Ok"]
RetValue(v) == [tag |-> "Value", hash |-> 0, val |-> v, err |-> "Ok"]
RetErr(kind) == [tag |-> "Err", hash |-> 0, val |-> NoValue, err |-> kind]
RetStore(h) == [tag |-> "Store", hash |-> 0, val |-> NoValue, err |-> "Ok", store |-> h]
RetUnit == [tag |-> "Unit", hash |-> 0, val |-> NoValue, err |-> "Ok"]
RetSize(n) == [tag |-> "Size", hash |-> 0, val |-> NoValue, err |-> "Ok", size |-> n]

\* A call: for a restore, sub tells that the digest was, when the call began,
\* that of a value an earlier persist had returned a Snapshot of, or of a
\* sub-value of one.
NoCall == [op |-> "none", val |-> NoValue, hash |-> 0, sub |-> FALSE]
NoPut == [hash |-> 0, res |-> "None"]
\* No lookup has returned bytes yet (gen: none).
NoHit == [hash |-> 0, gen |-> GENERATIONS, bytes |-> <<>>, first |-> GENERATIONS]
\* A flush or size loop: the generation it is at, the sizes summed so far.
NoScan == [gen |-> 0, size |-> 0]

\* Store objects are numbered in the order they are constructed; a thread
\* with no Store has none. SharedStore is the one every thread uses when the
\* Store is built once and cloned to all of them.
NoStore == 0
SharedStore == 1

\* Cache::new(32, 4096): an empty cache of bounded capacity.
CacheEntries == 32
CacheBytes == 4096
NewCache == [max |-> CacheEntries, bytes |-> CacheBytes, held |-> <<>>]

\* The generations that hold digest d, and the first of them in scan order.
Holders(d) == {g \in DOMAIN gens : HasDigest(gens[g], d)}
FirstHolder(d) ==
    IF Holders(d) = {} THEN GENERATIONS
    ELSE CHOOSE g \in Holders(d) : \A h \in Holders(d) : g <= h

\* Store::volatile / Store::new give a chain of one empty backend; the chain
\* type holds up to GENERATIONS backends, so the model also starts from
\* chains with older generations behind generation 0.
Chains ==
    UNION {[0..(n - 1) -> OldGens \cup {EmptyBag}] : n \in 1..MaxGens}

Init ==
    /\ MaxGens <= GENERATIONS
    /\ gens \in {c \in Chains : c[0] = EmptyBag
                                /\ \A g \in DOMAIN c : g > 0 => c[g] # EmptyBag}
    /\ pc = [t \in Threads |-> "idle"]
    /\ call = [t \in Threads |-> NoCall]
    /\ sinks = [t \in Threads |-> <<>>]
    /\ sources = [t \in Threads |-> <<>>]
    /\ ret = [t \in Threads |-> RetNone]
    /\ faulted = [t \in Threads |-> FALSE]
    /\ lastHit = [t \in Threads |-> NoHit]
    /\ lastPut = [t \in Threads |-> NoPut]
    /\ produced = {}
    /\ snapshots = {}
    /\ scan = [t \in Threads |-> NoScan]
    /\ cache = NewCache
    /\ handle = [t \in Threads |-> SharedStore]
    /\ opened = 1
    /\ dirExists = TRUE

\* A returned result is taken by its caller before the Store is used again:
\* taking it touches nothing shared, so no interleaving of Store state is lost.
Quiet == \A t \in Threads : pc[t] # "ret"

\* The caller takes the result of its call.
Drop(t) ==
    /\ pc[t] = "ret"
    /\ pc' = [pc EXCEPT ![t] = "idle"]
    /\ call' = [call EXCEPT ![t] = NoCall]
    /\ ret' = [ret EXCEPT ![t] = RetNone]
    /\ faulted' = [faulted EXCEPT ![t] = FALSE]
    /\ lastHit' = [lastHit EXCEPT ![t] = NoHit]
    /\ lastPut' = [lastPut EXCEPT ![t] = NoPut]
    /\ scan' = [scan EXCEPT ![t] = NoScan]
    /\ UNCHANGED <<gens, sinks, sources, produced, snapshots, cache, handle,
                   opened, dirExists>>

\* Variant: the scan visits the oldest generation first.
ScanGenReversed(n, k) == n - 1 - k

\* `for gen in self.0.generations.as_ref()`: the k-th generation the scan
\* visits, of n.
ScanGen(n, k) == k

\* ------------------------------------------------------ generation locks
\* get_hash keeps the read guard of the generation that returned bytes for
\* as long as T::restore runs on them: every frame under the top one holds
\* a read guard on its generation.
ReadGuards(t, g) ==
    Cardinality({i \in 1..(Len(sources[t]) - 1) :
                    ScanGen(NumGen, sources[t][i].gen) = g})

\* Each Store object has its own RwLock per generation: threads contend only
\* through the same Store.
SameStore(t, u) == handle[t] = handle[u]

\* A writer of thread t's Store is parked in RwLock::write on generation g:
\* a put (generation 0) or a flush (the generation its loop is at).
WriterWaiting(t, g) ==
    \E u \in Threads :
        /\ SameStore(t, u)
        /\ \/ pc[u] = "wput" /\ g = 0
           \/ pc[u] = "wflush" /\ scan[u].gen = g

\* RwLock::write is granted when no guard is held on the generation.
WriteLockFree(t, g) ==
    \A u \in Threads : SameStore(t, u) => ReadGuards(u, g) = 0

\* RwLock::read (parking_lot, task-fair): granted unless a writer holds the
\* lock or is parked waiting for it, also to a thread that already holds a
\* read guard on it. Writers hold the lock within one step only.
ReadLockFree(t, g) == ~WriterWaiting(t, g)

\* ------------------------------------------------------------- persist
NewSink(v) == [val |-> v, i |-> 1, buf |-> SinkHeader(v)]

\* Content::persist: each nested value is persisted through a child Sink
\* before the parent goes on; the walk stops at a Sink with nothing left to
\* write, which is finalized next.
RECURSIVE Descend(_)
Descend(stack) ==
    LET top == stack[Len(stack)]
    IN IF top.i <= Len(top.val.kids)
       THEN Descend(Append(stack, NewSink(top.val.kids[top.i])))
       ELSE stack

\* Variant: the bytes are written without the backend's presence check.
StorePutDup(gs, d, bytes) ==
    {[res |-> "Ok", gens |-> [gs EXCEPT ![0] = @ (+) SetToBag({Blob(d, bytes)})]],
     [res |-> "Io", gens |-> gs]}

\* Variant: the put goes to the last generation of the chain.
StorePutLastGen(gs, d, bytes) ==
    LET last == Cardinality(DOMAIN gs) - 1
    IN {[res |-> r.res, gens |-> [gs EXCEPT ![last] = r.backend]] :
           r \in BackendPut(gs[last], d, bytes)}

\* Store::put: generation 0's backend, under its write lock.
StorePut(gs, d, bytes) ==
    {[res |-> r.res, gens |-> [gs EXCEPT ![0] = r.backend]] :
        r \in BackendPut(gs[0], d, bytes)}

\* Store::persist, entry: a fresh Sink, then content.persist(&mut sink).
StartPersist(t, v) ==
    /\ Quiet
    /\ pc[t] = "idle"
    /\ handle[t] # NoStore
    /\ pc' = [pc EXCEPT ![t] = "put"]
    /\ call' = [call EXCEPT ![t] = [op |-> "persist", val |-> v, hash |-> 0,
                                     sub |-> FALSE]]
    /\ sinks' = [sinks EXCEPT ![t] = Descend(<<NewSink(v)>>)]
    /\ UNCHANGED <<gens, sources, ret, faulted, lastHit, lastPut, produced,
                   snapshots, scan, cache, handle, opened, dirExists>>

\* Variant: a put that failed does not end the persist.
PutFailedIgnored(res) == FALSE

\* `?` on the result of Store::put: any Err ends the persist.
PutFailed(res) == res \notin {"Ok", "AlreadyThere"}

\* Variant: a put also enters the bytes into the cache.
CacheAfterPutInsert(c, d, bytes) == [c EXCEPT !.held = Append(@, Blob(d, bytes))]

\* Store::put does not touch the cache.
CacheAfterPut(c, d, bytes) == c

\* Variant: the Snapshot's hash depends on what the store already held.
PersistReturnByStore(d) == RetSnapshot(IF d \in produced THEN 0 ELSE d)

\* Store::persist, exit: Ok(Snapshot { hash: sink.fin()? , .. }).
PersistReturn(d) == RetSnapshot(d)

\* Sink::fin: digest the buffer and Store::put it; the digest goes into the
\* parent's buffer, or back to Store::persist for the outermost Sink. A put
\* that fails ends the persist with that error.
Put(t) ==
    /\ Quiet
    /\ pc[t] \in {"put", "wput"}
    /\ WriteLockFree(t, 0)
    /\ LET stack == sinks[t]
           top == stack[Len(stack)]
           d == Hash(top.buf)
           rest == SubSeq(stack, 1, Len(stack) - 1)
       IN \E r \in StorePut(gens, d, top.buf) :
            /\ gens' = r.gens
            /\ lastPut' = [lastPut EXCEPT ![t] = [hash |-> d, res |-> r.res]]
            /\ produced' = IF r.res \in {"Ok", "AlreadyThere"}
                           THEN produced \cup {d} ELSE produced
            /\ cache' = CacheAfterPut(cache, d, top.buf)
            /\ IF PutFailed(r.res)
               THEN /\ sinks' = [sinks EXCEPT ![t] = <<>>]
                    /\ pc' = [pc EXCEPT ![t] = "ret"]
                    /\ ret' = [ret EXCEPT ![t] = RetErr(r.res)]
                    /\ faulted' = [faulted EXCEPT ![t] = TRUE]
                    /\ UNCHANGED snapshots
               ELSE IF rest = <<>>
               THEN /\ sinks' = [sinks EXCEPT ![t] = <<>>]
                    /\ pc' = [pc EXCEPT ![t] = "ret"]
                    /\ ret' = [ret EXCEPT ![t] = PersistReturn(d)]
                    /\ snapshots' = snapshots \cup
                         {[val |-> call[t].val, hash |-> PersistReturn(d).hash,
                           store |-> handle[t]]}
                    /\ UNCHANGED faulted
               ELSE /\ sinks' = [sinks EXCEPT ![t] = Descend(
                         [rest EXCEPT ![Len(rest)] =
                             [@ EXCEPT !.buf = Append(@, d), !.i = @ + 1]])]
                    /\ pc' = [pc EXCEPT ![t] = "put"]
                    /\ UNCHANGED <<ret, faulted, snapshots>>
    /\ UNCHANGED <<call, sources, lastHit, scan, handle, opened, dirExists>>

\* Store::put finds read guards held on generation 0: the thread parks in
\* RwLock::write until they are dropped.
ParkPut(t) ==
    /\ Quiet
    /\ pc[t] = "put"
    /\ ~WriteLockFree(t, 0)
    /\ pc' = [pc EXCEPT ![t] = "wput"]
    /\ UNCHANGED <<gens, call, sinks, sources, ret, faulted, lastHit, lastPut,
                   produced, snapshots, scan, cache, handle, opened, dirExists>>


\* ------------------------------------------------------------- restore
\* A get_hash call: the digest it looks up, the generation its scan is at
\* (for a frame under the top one: the generation that returned its bytes),
\* and what T::restore has decoded from those bytes so far.
NewLookup(d) == [hash |-> d, gen |-> 0, x |-> 0, ds |-> <<>>, kids |-> <<>>]


\* Variant: a scan that found nothing reports another error kind.
ScanOutcomeOther(n, g, r) ==
    IF r.err = "Ok" THEN [to |-> "decode", gen |-> g, err |-> "Ok"]
    ELSE IF g + 1 < n THEN [to |-> "scan", gen |-> g + 1, err |-> "Ok"]
    ELSE [to |-> "fail", gen |-> g, err |-> "Other"]

\* get_hash's loop over the generations, for the result r of
\* gen.read().get(hash) on generation g of n: bytes are decoded; any Err
\* moves the scan to the next generation; after the last one, NotFound.
ScanOutcome(n, g, r) ==
    IF r.err = "Ok" THEN [to |-> "decode", gen |-> g, err |-> "Ok"]
    ELSE IF g + 1 < n THEN [to |-> "scan", gen |-> g + 1, err |-> "Ok"]
    ELSE [to |-> "fail", gen |-> g, err |-> "NotFound"]

\* Variant: a failed restore is replaced by a default value.
GetHashReturnDefault(r) == IF r.tag = "Err" THEN RetValue(NoValue) ELSE r

\* get_hash returns what T::restore returned.
GetHashReturn(r) == r

\* Content::restore, resumed with the value v of the nested lookup that just
\* returned: the next embedded digest is looked up, or the value is complete
\* and returned one level up.
RECURSIVE Resume(_, _)
Resume(stack, v) ==
    IF stack = <<>> THEN [done |-> TRUE, val |-> v, stack |-> <<>>]
    ELSE LET n == Len(stack)
             top == stack[n]
             got == Append(top.kids, v)
         IN IF Len(got) < Len(top.ds)
            THEN [done |-> FALSE, val |-> NoValue,
                  stack |-> Append([stack EXCEPT ![n] = [@ EXCEPT !.kids = got]],
                                   NewLookup(top.ds[Len(got) + 1]))]
            ELSE Resume(SubSeq(stack, 1, n - 1), Node(top.x, got))

\* Store::restore: get_hash(&snap.hash).
StartRestore(t, d) ==
    /\ Quiet
    /\ pc[t] = "idle"
    /\ handle[t] # NoStore
    /\ pc' = [pc EXCEPT ![t] = "get"]
    /\ call' = [call EXCEPT ![t] =
          [op |-> "restore", val |-> NoValue, hash |-> d,
           sub |-> \E s \in snapshots : \E u \in SubValues(s.val) : DigestOf(u) = d]]
    /\ sources' = [sources EXCEPT ![t] = <<NewLookup(d)>>]
    /\ UNCHANGED <<gens, sinks, ret, faulted, lastHit, lastPut, produced,
                   snapshots, scan, cache, handle, opened, dirExists>>

\* gen.read().get(hash): the backend of the generation is asked; the cache
\* of the Store is not.
GenRead(c, b, d) == BackendGet(b, d)

\* Variant: a lookup takes the blob out of the generation it found it in.
GensAfterGetTaken(gs, g, d) ==
    [gs EXCEPT ![g] = SetToBag({e \in BagToSet(@) : e.digest # d})]

\* Backend::get takes &self and returns a reader: a lookup leaves every
\* generation as it is.
GensAfterGet(gs, g, d) == gs

\* The call of thread t ends with result r: every frame returns it.
Finish(t, r) ==
    /\ sources' = [sources EXCEPT ![t] = <<>>]
    /\ pc' = [pc EXCEPT ![t] = "ret"]
    /\ ret' = [ret EXCEPT ![t] = r]

\* One gen.read().get(hash) of the innermost get_hash, and what follows it
\* up to the next lookup.
Get(t) ==
    /\ Quiet
    /\ pc[t] = "get"
    /\ LET stack == sources[t]
           n == Len(stack)
           top == stack[n]
           rest == SubSeq(stack, 1, n - 1)
           g == ScanGen(NumGen, top.gen)
       IN /\ ReadLockFree(t, g)
          /\ gens' = GensAfterGet(gens, g, top.hash)
          /\ \E r \in GenRead(cache, gens[g], top.hash) :
            LET o == ScanOutcome(NumGen, top.gen, r)
            IN /\ faulted' = [faulted EXCEPT ![t] = @ \/ r.err = "Io"]
               /\ lastHit' = [lastHit EXCEPT ![t] =
                     IF o.to = "decode"
                     THEN [hash |-> top.hash, gen |-> ScanGen(NumGen, o.gen),
                           bytes |-> r.bytes,
                           first |-> FirstHolder(top.hash)]
                     ELSE @]
               /\ CASE o.to = "scan" ->
                         /\ sources' = [sources EXCEPT ![t][n].gen = o.gen]
                         /\ UNCHANGED <<pc, ret>>
                    [] o.to = "fail" ->
                         Finish(t, GetHashReturn(RetErr(o.err)))
                    [] o.to = "decode" /\ ~WellFormed(r.bytes) ->
                         Finish(t, GetHashReturn(RetErr("Decode")))
                    [] o.to = "decode" /\ WellFormed(r.bytes) ->
                         LET ds == DecodeDigests(r.bytes)
                             x == DecodeX(r.bytes)
                             hit == [top EXCEPT !.gen = o.gen, !.x = x, !.ds = ds]
                             next == IF ds = <<>>
                                     THEN Resume(rest, Node(x, <<>>))
                                     ELSE [done |-> FALSE, val |-> NoValue,
                                           stack |-> Append(Append(rest, hit),
                                                            NewLookup(ds[1]))]
                         IN IF next.done
                            THEN Finish(t, GetHashReturn(RetValue(next.val)))
                            ELSE /\ sources' = [sources EXCEPT ![t] = next.stack]
                                 /\ UNCHANGED <<pc, ret>>
    /\ UNCHANGED <<call, sinks, lastPut, produced, snapshots, scan, cache,
                   handle, opened, dirExists>>

\* What get_hash(d) returns from generations gs that stay as they are while
\* it runs, when no backend reports an I/O failure: the bytes of the first
\* generation that holds d, decoded, each embedded digest looked up in turn.
RECURSIVE Lookup(_, _)
Lookup(gs, d) ==
    LET hs == {g \in DOMAIN gs : HasDigest(gs[g], d)}
    IN IF hs = {} THEN RetErr("NotFound")
       ELSE LET g == CHOOSE g \in hs : \A h \in hs : g <= h
                bytes == (CHOOSE e \in BagToSet(gs[g]) : e.digest = d).bytes
            IN IF ~WellFormed(bytes) THEN RetErr("Decode")
               ELSE LET ds == DecodeDigests(bytes)
                        rs == [i \in 1..Len(ds) |-> Lookup(gs, ds[i])]
                        bad == {i \in 1..Len(ds) : rs[i].tag = "Err"}
                    IN IF bad # {}
                       THEN rs[CHOOSE i \in bad : \A j \in bad : i <= j]
                       ELSE RetValue(Node(DecodeX(bytes),
                                          [i \in 1..Len(ds) |-> rs[i].val]))

\* ------------------------------------------------------- flush and size
\* Backend flush: forces buffered writes out; the stored blobs stay as they
\* are; or an I/O failure.
BackendFlush(b) == {PutDone("Ok", b), PutDone("Io", b)}

\* Backend::size: an approximate byte count of what the backend holds.
RECURSIVE BagBytes(_, _)
BagBytes(b, S) ==
    IF S = {} THEN 0
    ELSE LET e == CHOOSE e \in S : TRUE
         IN CopiesIn(e, b) * Len(e.bytes) + BagBytes(b, S \ {e})
BackendSize(b) == BagBytes(b, BagToSet(b))

\* `for gen in &self.0.generations`: flush visits every generation.
FlushGens(n) == 0..(n - 1)

\* Store::flush, entry.
StartFlush(t) ==
    /\ Quiet
    /\ pc[t] = "idle"
    /\ handle[t] # NoStore
    /\ pc' = [pc EXCEPT ![t] = "flush"]
    /\ call' = [call EXCEPT ![t] = [op |-> "flush", val |-> NoValue, hash |-> 0,
                                     sub |-> FALSE]]
    /\ scan' = [scan EXCEPT ![t] = NoScan]
    /\ UNCHANGED <<gens, sinks, sources, ret, faulted, lastHit, lastPut,
                   produced, snapshots, cache, handle, opened, dirExists>>

\* Store::flush, one turn of the loop: gen.write().flush()? on the generation
\* the loop is at; the guard is dropped at the end of the statement.
Flush(t) ==
    /\ Quiet
    /\ pc[t] \in {"flush", "wflush"}
    /\ LET g == scan[t].gen
       IN /\ WriteLockFree(t, g)
          /\ \E r \in BackendFlush(gens[g]) :
               /\ gens' = [gens EXCEPT ![g] = r.backend]
               /\ IF PutFailed(r.res)
                  THEN /\ pc' = [pc EXCEPT ![t] = "ret"]
                       /\ ret' = [ret EXCEPT ![t] = RetErr(r.res)]
                       /\ faulted' = [faulted EXCEPT ![t] = TRUE]
                       /\ UNCHANGED scan
                  ELSE IF g + 1 \in FlushGens(NumGen)
                  THEN /\ pc' = [pc EXCEPT ![t] = "flush"]
                       /\ scan' = [scan EXCEPT ![t].gen = g + 1]
                       /\ UNCHANGED <<ret, faulted>>
                  ELSE /\ pc' = [pc EXCEPT ![t] = "ret"]
                       /\ ret' = [ret EXCEPT ![t] = RetUnit]
                       /\ UNCHANGED <<scan, faulted>>
    /\ UNCHANGED <<call, sinks, sources, lastHit, lastPut, produced, snapshots,
                   cache, handle, opened, dirExists>>

\* Store::flush finds read guards held on the generation it is at: the
\* thread parks in RwLock::write until they are dropped.
ParkFlush(t) ==
    /\ Quiet
    /\ pc[t] = "flush"
    /\ ~WriteLockFree(t, scan[t].gen)
    /\ pc' = [pc EXCEPT ![t] = "wflush"]
    /\ UNCHANGED <<gens, call, sinks, sources, ret, faulted, lastHit, lastPut,
                   produced, snapshots, scan, cache, handle, opened, dirExists>>

\* Store::size, entry.
StartSize(t) ==
    /\ Quiet
    /\ pc[t] = "idle"
    /\ handle[t] # NoStore
    /\ pc' = [pc EXCEPT ![t] = "size"]
    /\ call' = [call EXCEPT ![t] = [op |-> "size", val |-> NoValue, hash |-> 0,
                                     sub |-> FALSE]]
    /\ scan' = [scan EXCEPT ![t] = NoScan]
    /\ UNCHANGED <<gens, sinks, sources, ret, faulted, lastHit, lastPut,
                   produced, snapshots, cache, handle, opened, dirExists>>

\* Store::size, one turn of the loop: size += gen.read().size().
Size(t) ==
    /\ Quiet
    /\ pc[t] = "size"
    /\ LET g == scan[t].gen
           sum == scan[t].size + BackendSize(gens[g])
       IN /\ ReadLockFree(t, g)
          /\ IF g + 1 < NumGen
             THEN /\ scan' = [scan EXCEPT ![t] = [gen |-> g + 1, size |-> sum]]
                  /\ UNCHANGED <<pc, ret>>
             ELSE /\ pc' = [pc EXCEPT ![t] = "ret"]
                  /\ ret' = [ret EXCEPT ![t] = RetSize(sum)]
                  /\ UNCHANGED scan
    /\ UNCHANGED <<gens, call, sinks, sources, faulted, lastHit, lastPut,
                   produced, snapshots, cache, handle, opened, dirExists>>

\* --------------------------------------------------- durable locations
\* Variant: opening a location empties it.
PersistantNewWipe(exists, content) ==
    {[res |-> "Ok", exists |-> TRUE, backend |-> EmptyBag],
     [res |-> "Io", exists |-> exists, backend |-> content]}

\* Persistant::new(path): creates the storage directory if it is absent and
\* opens the location with the blobs it holds; or an I/O failure.
PersistantNew(exists, content) ==
    {[res |-> "Ok", exists |-> TRUE, backend |-> content],
     [res |-> "Io", exists |-> exists, backend |-> content]}

\* Variant: a failure of Persistant::new is not passed on.
StoreNewIgnoreErr(exists, content) ==
    {[res |-> "Ok", exists |-> r.exists, chain |-> [g \in {0} |-> r.backend]] :
        r \in PersistantNew(exists, content)}

\* Store::new: Persistant::new(path)?, pushed as the one generation of a new
\* chain.
StoreNew(exists, content) ==
    {[res |-> r.res, exists |-> r.exists, chain |-> [g \in {0} |-> r.backend]] :
        r \in PersistantNew(exists, content)}

\* Store::new(path) by a thread that holds no Store.
New(t) ==
    /\ Quiet
    /\ pc[t] = "idle"
    /\ handle[t] = NoStore
    /\ opened < MaxOpens
    /\ \E r \in StoreNew(dirExists, gens[0]) :
         /\ dirExists' = r.exists
         /\ pc' = [pc EXCEPT ![t] = "ret"]
         /\ call' = [call EXCEPT ![t] = [op |-> "new", val |-> NoValue,
                                          hash |-> 0, sub |-> FALSE]]
         /\ IF r.res = "Ok"
            THEN /\ gens' = r.chain
                 /\ opened' = opened + 1
                 /\ handle' = [handle EXCEPT ![t] = opened + 1]
                 /\ ret' = [ret EXCEPT ![t] = RetStore(opened + 1)]
                 /\ UNCHANGED faulted
            ELSE /\ ret' = [ret EXCEPT ![t] = RetErr(r.res)]
                 /\ faulted' = [faulted EXCEPT ![t] = TRUE]
                 /\ UNCHANGED <<gens, opened, handle>>
    /\ UNCHANGED <<sinks, sources, lastHit, lastPut, produced, snapshots, scan,
                   cache>>

\* Thread t drops its Store.
Close(t) ==
    /\ Quiet
    /\ pc[t] = "idle"
    /\ handle[t] # NoStore
    /\ handle' = [handle EXCEPT ![t] = NoStore]
    /\ UNCHANGED <<gens, pc, call, sinks, sources, ret, faulted, lastHit,
                   lastPut, produced, snapshots, scan, cache, opened, dirExists>>

\* ---------------------------------------------------------------- spec
\* Snapshots a caller may hold: of any value, from this Store or another.
Digests == {DigestOf(v) : v \in Values \cup {ValForeign}}

Next ==
    \E t \in Threads :
        \/ \E v \in Values : StartPersist(t, v)
        \/ Put(t)
        \/ ParkPut(t)
        \/ \E d \in Digests : t \in Restorers /\ StartRestore(t, d)
        \/ Get(t)
        \/ Drop(t)

Spec == Init /\ [][Next]_vars

\* The same Store with its housekeeping: persist and restore as above, and
\* flush and size.
NextKeep ==
    \/ Next
    \/ \E t \in Keepers :
        \/ StartFlush(t)
        \/ Flush(t)
        \/ ParkFlush(t)
        \/ StartSize(t)
        \/ Size(t)

\* Flush and size read no blob: this specification starts from the chains
\* whose older generations all hold A alone.
InitKeep ==
    /\ Init
    /\ \A g \in DOMAIN gens : g > 0 => gens[g] = OldParentOnly

SpecKeep == InitKeep /\ [][NextKeep]_vars

\* Stores over one durable location: no Store has been constructed and the
\* storage directory does not exist yet; each thread opens the location
\* with Store::new for a Store of its own, persists and restores through it,
\* and drops it. (Spec has the threads share one Store.)
InitOpen ==
    /\ gens = [g \in {0} |-> EmptyBag]
    /\ pc = [t \in Threads |-> "idle"]
    /\ call = [t \in Threads |-> NoCall]
    /\ sinks = [t \in Threads |-> <<>>]
    /\ sources = [t \in Threads |-> <<>>]
    /\ ret = [t \in Threads |-> RetNone]
    /\ faulted = [t \in Threads |-> FALSE]
    /\ lastHit = [t \in Threads |-> NoHit]
    /\ lastPut = [t \in Threads |-> NoPut]
    /\ produced = {}
    /\ snapshots = {}
    /\ scan = [t \in Threads |-> NoScan]
    /\ cache = NewCache
    /\ handle = [t \in Threads |-> NoStore]
    /\ opened = 0
    /\ dirExists = FALSE

NextOpen ==
    \E t \in Threads :
        \/ New(t)
        \/ Close(t)
        \/ \E v \in Values : StartPersist(t, v)
        \/ Put(t)
        \/ \E d \in Digests : t \in Restorers /\ StartRestore(t, d)
        \/ Get(t)
        \/ Drop(t)

SpecOpen == InitOpen /\ [][NextOpen]_vars


\* -------------------------------------------------------------- claims
PersistDone(t) == pc[t] = "ret" /\ call[t].op = "persist"
RestoreDone(t) == pc[t] = "ret" /\ call[t].op = "restore"
\* The blob each value is stored as, tabulated once.
BlobTable == [v \in Values \cup {ValForeign} |-> Blob(DigestOf(v), BytesOf(v))]
BlobOf(v) == BlobTable[v]
SnapshotOf(v) == [val |-> v, hash |-> DigestOf(v), store |-> SharedStore]

\* C1 (round trip): a restore of a Snapshot that a persist of v returned,
\* run with no backend I/O failure, returns Ok(v), whatever persists and
\* restores came before it or run beside it.
C1_RoundTrip ==
    \A t \in Threads :
        (RestoreDone(t) /\ ~faulted[t] /\ call[t].sub) =>
            \A s \in snapshots : s.hash = call[t].hash => ret[t] = RetValue(s.val)

\* A was persisted and restored whole, with a cut-short copy of B's blob
\* sitting in an older generation.
C1_Witness ==
    \E t \in Threads :
        /\ RestoreDone(t) /\ ~faulted[t] /\ call[t].sub
        /\ call[t].hash = DigestOf(ValA)
        /\ SnapshotOf(ValA) \in snapshots
        /\ ret[t] = RetValue(ValA)
        /\ NumGen = 2 /\ gens[1] = OldCorruptChild

\* C2 (put dedup): a Store::put of a digest generation 0 already holds, when
\* the backend reports no I/O failure, reports AlreadyThere and changes no
\* stored blob; and generation 0, where every put goes, never holds more
\* than one blob for a digest.
C2_PutStep(t) == pc[t] \in {"put", "wput"} /\ sinks'[t] # sinks[t]
C2_PutDedup ==
    /\ [][\A t \in Threads :
            (/\ C2_PutStep(t)
             /\ HasDigest(gens[0], Hash(sinks[t][Len(sinks[t])].buf))
             /\ lastPut'[t].res # "Io")
            => (gens' = gens /\ lastPut'[t].res = "AlreadyThere")]_vars
    /\ [](\A d \in Digests : CopiesOf(gens[0], d) <= 1)

\* A put found its digest already stored, and one copy of it is held.
C2_Witness ==
    \E t \in Threads :
        /\ lastPut[t].res = "AlreadyThere"
        /\ CopiesOf(gens[0], lastPut[t].hash) = 1

\* C3 (determinism): every Snapshot a persist of v returns carries the digest
\* DigestOf(v), a function of v alone: two persists of v agree, in whatever
\* state the store was each time.
C3_Determinism ==
    /\ \A s \in snapshots : s.hash = DigestOf(s.val)
    /\ \A t \in Threads :
        (PersistDone(t) /\ ret[t].tag = "Snapshot") =>
            ret[t].hash = DigestOf(call[t].val)

\* A second persist of A, into a store that already held all of A, returned
\* the digest the first one returned.
C3_Witness ==
    \E t \in Threads :
        /\ PersistDone(t) /\ call[t].val = ValA
        /\ lastPut[t] = [hash |-> DigestOf(ValA), res |-> "AlreadyThere"]
        /\ ret[t] = RetSnapshot(DigestOf(ValA))
        /\ SnapshotOf(ValA) \in snapshots

\* C4 (dedup): generation 0 holds one blob for each distinct digest the puts
\* have produced, however many persist calls and sub-values produced it; and
\* equal values got equal digests.
C4_Dedup ==
    /\ BagCardinality(gens[0]) = Cardinality(produced)
    /\ \A e \in BagToSet(gens[0]) : CopiesIn(e, gens[0]) = 1 /\ e.digest \in produced
    /\ \A s1, s2 \in snapshots : s1.val = s2.val => s1.hash = s2.hash

\* A persist of A that found even its root stored: four sub-values have been
\* put by then, and two blobs are stored.
C4_Witness ==
    \E t \in Threads :
        /\ PersistDone(t) /\ call[t].val = ValA
        /\ lastPut[t].res = "AlreadyThere"
        /\ BagCardinality(gens[0]) = 2

\* C5 (miss): a restore of a digest that no generation holds returns
\* Err(NotFound).
C5_Miss ==
    \A t \in Threads :
        (RestoreDone(t) /\ Holders(call[t].hash) = {}) =>
            ret[t] = RetErr("NotFound")

\* A miss in a store that holds other blobs, in two generations.
C5_Witness ==
    \E t \in Threads :
        /\ RestoreDone(t) /\ ~faulted[t]
        /\ Holders(call[t].hash) = {}
        /\ ret[t] = RetErr("NotFound")
        /\ call[t].hash = DigestOf(ValForeign)
        /\ gens[0] # EmptyBag /\ NumGen = 2


C7_IoPropagates ==
    \A t \in Threads :
        (pc[t] = "ret" /\ faulted[t]) => ret[t] = RetErr("Io")

\* C8 (concurrent puts): every persist that meets no I/O failure returns the
\* Snapshot of its value's digest, whatever the other threads persist at the
\* same time, and generation 0 holds exactly one blob under the digest of
\* every Snapshot returned, with the bytes of its value.
C8_ConcurrentPuts ==
    /\ \A t \in Threads :
        (PersistDone(t) /\ ~faulted[t]) =>
            ret[t] = RetSnapshot(DigestOf(call[t].val))
    /\ \A s \in snapshots :
        /\ CopiesOf(gens[0], s.hash) = 1
        /\ CopiesIn(BlobOf(s.val), gens[0]) = 1

\* Two persists of A overlap: thread u stored B itself and is about to put
\* A's root, which thread t, done by now, stored after finding B there.
C8_Witness ==
    \E t, u \in Threads :
        /\ t # u
        /\ PersistDone(t) /\ call[t].val = ValA
        /\ ret[t] = RetSnapshot(DigestOf(ValA))
        /\ lastPut[t] = [hash |-> DigestOf(ValA), res |-> "Ok"]
        /\ pc[u] = "put" /\ call[u].val = ValA
        /\ lastPut[u] = [hash |-> DigestOf(ValB), res |-> "Ok"]
        /\ CopiesOf(gens[0], DigestOf(ValA)) = 1

\* C9 (nested failures): a restore whose last blob read is malformed fails
\* with the decode error; one whose last blob read embeds a digest that no
\* generation holds fails with NotFound; and a restore that returns a value
\* returns one with no default in place of a nested value.
C9_NestedFailure ==
    \A t \in Threads :
        RestoreDone(t) =>
            /\ (lastHit[t] # NoHit /\ ~WellFormed(lastHit[t].bytes))
                  => ret[t] = RetErr("Decode")
            /\ (/\ lastHit[t] # NoHit /\ WellFormed(lastHit[t].bytes)
                /\ \E i \in 1..Len(DecodeDigests(lastHit[t].bytes)) :
                      Holders(DecodeDigests(lastHit[t].bytes)[i]) = {})
                  => ret[t] = RetErr("NotFound")
            /\ ret[t].tag = "Value" => NoValue \notin SubValues(ret[t].val)

\* A's blob was read from an older generation, its child's bytes there are
\* cut short, and the restore of A failed with the decode error.
C9_Witness ==
    \E t \in Threads :
        /\ RestoreDone(t) /\ ~faulted[t]
        /\ call[t].hash = DigestOf(ValA)
        /\ lastHit[t].hash = DigestOf(ValB) /\ ~WellFormed(lastHit[t].bytes)
        /\ ret[t] = RetErr("Decode")

\* C10 (nested values are entries of their own): once a persist has returned
\* a Snapshot of v, generation 0 holds the blob of every sub-value of v, and
\* a restore of a sub-value's digest that meets no I/O failure returns that
\* sub-value; with A the one value persisted, generation 0 holds just the
\* blobs of B and of A.
C10_Addressable ==
    /\ \A s \in snapshots : \A u \in SubValues(s.val) :
          CopiesIn(BlobOf(u), gens[0]) = 1
    /\ \A t \in Threads :
        (RestoreDone(t) /\ ~faulted[t] /\ call[t].sub) =>
            \A s \in snapshots : \A u \in SubValues(s.val) :
                DigestOf(u) = call[t].hash => ret[t] = RetValue(u)
    /\ snapshots = {SnapshotOf(ValA)} =>
          gens[0] = SetToBag({BlobOf(ValB), BlobOf(ValA)})

\* Only A was persisted, into a chain of one empty generation; two blobs are
\* stored and a restore of B's digest returned B.
C10_Witness ==
    \E t \in Threads :
        /\ NumGen = 1
        /\ snapshots = {SnapshotOf(ValA)}
        /\ BagCardinality(gens[0]) = 2
        /\ RestoreDone(t) /\ ~faulted[t]
        /\ call[t].hash = DigestOf(ValB)
        /\ ret[t] = RetValue(ValB)


\* C11 (writes target generation 0): no step of any operation (persist and
\* its puts, restore, flush, size) changes the blobs of a generation with
\* index >= 1 or the length of the chain, and generation 0 changes only in a
\* step of Store::put that stored a blob.
C11_WritesGenZero ==
    [][/\ DOMAIN gens' = DOMAIN gens
       /\ \A g \in DOMAIN gens : g >= 1 => gens'[g] = gens[g]
       /\ gens'[0] # gens[0] =>
            \E t \in Threads : /\ pc[t] \in {"put", "wput"}
                               /\ lastPut'[t].res = "Ok"
                               /\ sinks'[t] # sinks[t]]_vars

\* Blobs were put and a flush went over a chain of two generations: the
\* older one still holds what it held at creation.
C11_Witness ==
    \E t \in Threads :
        /\ pc[t] = "ret" /\ call[t].op = "flush" /\ ret[t] = RetUnit
        /\ NumGen = 2
        /\ BagCardinality(gens[0]) = 2
        /\ gens[1] = OldParentOnly


\* C12 (restore is non-destructive): no step of a restore changes the blobs
\* of any generation or the Snapshots held; after a restore, successful or
\* failed, the bytes it read are still stored where it read them; and a
\* restore of a Snapshot that met no I/O failure returned what a further
\* restore of it from the store as it is now returns.
C12_NonDestructive ==
    /\ [][\A t \in Threads :
            sources'[t] # sources[t] =>
                (gens' = gens /\ snapshots' = snapshots)]_vars
    /\ [](\A t \in Threads :
            RestoreDone(t) =>
                /\ lastHit[t] # NoHit =>
                     CopiesIn(Blob(lastHit[t].hash, lastHit[t].bytes),
                              gens[lastHit[t].gen]) >= 1
                /\ (~faulted[t] /\ call[t].sub) =>
                     /\ ret[t].tag = "Value"
                     /\ Lookup(gens, call[t].hash) = ret[t])

\* A restore of A failed, its child being nowhere, and A's blob is still in
\* the older generation it was read from.
C12_Witness ==
    \E t \in Threads :
        /\ RestoreDone(t) /\ ~faulted[t]
        /\ call[t].hash = DigestOf(ValA)
        /\ ret[t] = RetErr("NotFound")
        /\ lastHit[t].hash = DigestOf(ValA) /\ lastHit[t].gen = 1
        /\ CopiesIn(BlobOf(ValA), gens[1]) = 1


\* C13 (cache transparency): the Store's cache stays as it was constructed,
\* holding nothing, through every persist and restore, and the bytes every
\* lookup decodes are bytes a generation's backend holds under the digest:
\* the results are those of the same Store with no cache.
C13_CacheTransparent ==
    /\ [](cache = NewCache /\ cache.held = <<>>)
    /\ [][\A t \in Threads :
            lastHit'[t] # lastHit[t] /\ lastHit'[t] # NoHit =>
                CopiesIn(Blob(lastHit'[t].hash, lastHit'[t].bytes),
                         gens[lastHit'[t].gen]) >= 1]_vars

\* A was persisted and restored through the Store, and its cache is empty.
C13_Witness ==
    \E t \in Threads :
        /\ RestoreDone(t) /\ ret[t] = RetValue(ValA)
        /\ SnapshotOf(ValA) \in snapshots
        /\ lastHit[t].gen = 0
        /\ cache.held = <<>>


NewDone(t) == pc[t] = "ret" /\ call[t].op = "new"

\* C14 (opening a location again): a Store::new over the location another
\* Store was opened on, alive or dropped, succeeds unless the medium fails,
\* and changes no stored blob; every sub-value of every Snapshot persisted
\* through any Store keeps its one blob with its bytes, and a restore of the
\* Snapshot through any Store over the location, run with no I/O failure,
\* returns its value.
C14_ReopenKeeps ==
    /\ [][\A t \in Threads :
            (pc[t] = "idle" /\ pc'[t] = "ret" /\ call'[t].op = "new") =>
                (gens' = gens /\ snapshots' = snapshots)]_vars
    /\ [](/\ \A t \in Threads :
               (NewDone(t) /\ ~faulted[t]) =>
                   (ret[t].tag = "Store" /\ handle[t] = ret[t].store)
          /\ \A s \in snapshots : \A u \in SubValues(s.val) :
               CopiesIn(BlobOf(u), gens[0]) = 1
          /\ \A t \in Threads : \A s \in snapshots :
               (/\ RestoreDone(t) /\ ~faulted[t] /\ call[t].sub
                /\ call[t].hash = s.hash) => ret[t] = RetValue(s.val))

\* A was persisted through the first Store, which has been dropped since; a
\* second Store over the location restored A.
C14_Witness ==
    \E t \in Threads : \E s \in snapshots :
        /\ s.val = ValA /\ s.store = 1
        /\ \A u \in Threads : handle[u] # s.store
        /\ handle[t] = 2
        /\ RestoreDone(t) /\ call[t].hash = s.hash
        /\ ret[t] = RetValue(ValA)

\* C15 (the storage directory is created): whenever Store::new has returned
\* Ok, the storage directory exists and the Store has a chain of one
\* generation; so it is for every Store a thread holds.
C15_CreatesDirectory ==
    /\ \A t \in Threads :
        (NewDone(t) /\ ret[t].tag = "Store") =>
            (dirExists /\ NumGen = 1 /\ handle[t] = ret[t].store)
    /\ \A t \in Threads : handle[t] # NoStore => (dirExists /\ NumGen = 1)

\* The first Store::new, on the location whose directory did not exist,
\* returned Ok and the directory exists.
C15_Witness ==
    \E t \in Threads :
        /\ NewDone(t) /\ ret[t] = RetStore(1)
        /\ opened = 1
        /\ dirExists
        /\ gens[0] = EmptyBag


\* The generations thread t holds a read guard on.
HeldGens(t) == {g \in DOMAIN gens : ReadGuards(t, g) > 0}

\* The generation whose lock thread t asks for next.
LockWanted(t) ==
    IF pc[t] = "get" THEN ScanGen(NumGen, sources[t][Len(sources[t])].gen)
    ELSE IF pc[t] \in {"flush", "wflush", "size"} THEN scan[t].gen
    ELSE 0

\* Thread t is granted a lock in this step: a lookup, a put, a turn of the
\* flush or size loop.
TakesLock(t) ==
    \/ pc[t] = "get" /\ (sources'[t] # sources[t] \/ pc'[t] = "ret")
    \/ pc[t] \in {"put", "wput"} /\ sinks'[t] # sinks[t]
    \/ pc[t] \in {"flush", "wflush"} /\ (scan'[t] # scan[t] \/ pc'[t] = "ret")
    \/ pc[t] = "size" /\ (scan'[t] # scan[t] \/ pc'[t] = "ret")

C18_PostOrder ==
    /\ \A e \in BagToSet(gens[0]) :
        /\ WellFormed(e.bytes)
        /\ \A i \in 1..Len(DecodeDigests(e.bytes)) :
              HasDigest(gens[0], DecodeDigests(e.bytes)[i])
    /\ \A t \in Threads : \A k \in 1..Len(sinks[t]) :
        \A i \in 3..Len(sinks[t][k].buf) :
            HasDigest(gens[0], sinks[t][k].buf[i])

\* A persist of A failed at the put of A's own blob: B is stored, A is not.
C18_Witness ==
    \E t \in Threads :
        /\ PersistDone(t) /\ faulted[t] /\ call[t].val = ValA
        /\ lastPut[t] = [hash |-> DigestOf(ValA), res |-> "Io"]
        /\ gens[0] = SetToBag({BlobOf(ValB)})

\* Thread t waits for a lock it cannot be granted in this state.
Blocked(t) ==
    \/ pc[t] \in {"get", "size"} /\ ~ReadLockFree(t, LockWanted(t))
    \/ pc[t] \in {"wput", "wflush"} /\ ~WriteLockFree(t, LockWanted(t))

\* C19 (deadlock freedom): no state is reached in which a thread is blocked
\* on a generation lock while every other thread is blocked too or runs no
\* call, so that no guard it waits for is ever dropped.
C19_DeadlockFree ==
    ~\E t \in Threads :
        /\ Blocked(t)
        /\ \A u \in Threads : Blocked(u) \/ pc[u] = "idle"

\* C20 (stored content only grows): no step of persist, restore, flush or
\* size removes a blob from a generation, adds a second blob under a digest
\* a generation holds, or changes the chain; and a restore of every Snapshot
\* returned so far, from the store as it is, returns the Snapshot's value.
C20_OnlyGrows ==
    /\ [][/\ DOMAIN gens' = DOMAIN gens
          /\ \A g \in DOMAIN gens :
               /\ gens[g] \sqsubseteq gens'[g]
               /\ \A e \in BagToSet(gens'[g]) :
                    HasDigest(gens[g], e.digest) =>
                        CopiesIn(e, gens'[g]) = CopiesIn(e, gens[g])]_vars
    /\ [](\A s \in snapshots : Lookup(gens, s.hash) = RetValue(s.val))

\* After A's Snapshot was returned, a flush went over the chain and another
\* persist of A is under way: A is restorable as before.
C20_Witness ==
    \E t, u \in Threads :
        /\ pc[t] = "ret" /\ call[t].op = "flush" /\ ret[t] = RetUnit
        /\ pc[u] = "put" /\ call[u].val = ValA
        /\ lastPut[u] = [hash |-> DigestOf(ValB), res |-> "AlreadyThere"]
        /\ SnapshotOf(ValA) \in snapshots
        /\ NumGen = 2
        /\ Lookup(gens, DigestOf(ValA)) = RetValue(ValA)

====
